---- MODULE Spec2Model ----
(***************************************************************************)
(* FrostForecast consumption dashboard (src/app.py).                       *)
(*                                                                         *)
(* A Streamlit script: every user interaction re-runs main() from top to   *)
(* bottom against the per-session st.session_state and the shared          *)
(* FILTER_SETTINGS table.  One action of this module is one such run.      *)
(*                                                                         *)
(* Text is modelled as a sequence of tokens: "," and " " are the comma and *)
(* a whitespace character, every other token is a word without commas or  *)
(* whitespace.  The empty text "" is << >>.                                *)
(* A Python Optional is a sequence of length 0 (None) or 1 (a value).      *)
(* Credits, prices and costs are integers; timestamps are integer hours.   *)
(* Credits are counted in thousandths of a credit, prices in dollars per   *)
(* credit, costs in thousandths of a dollar, growth rates in tenths of a   *)
(* percent.                                                                *)
(***************************************************************************)
EXTENDS Integers, Sequences, FiniteSets, TLC

VARIABLES
    session_state,   \* session -> st.session_state of that browser session
    filter_settings, \* rows of FROSTFORECAST.APP_USAGE.FILTER_SETTINGS, in insertion order
    last,            \* the last script run: who, which widget, when, how it ended, what it showed
    saved,           \* history: FILTER_ID -> the filter_data of the most recent successful save
    nactions,        \* number of user interactions so far
    call,            \* one direct call: of fetch_materialized_view_data (SpecFetch), of
                     \* the consumption tab's summary (SpecSummary), of the predictions
                     \* tab (SpecPredict)
    cache,           \* the entries st.cache_data holds for fetch_materialized_view_data
    now,             \* the time, in seconds
    loads            \* the instants at which the warehouse loaded new usage

vars == <<session_state, filter_settings, last, saved, nactions, call, cache, now, loads>>

---------------------------------------------------------------------------
(* Bounds of the model *)

NumSessions == 2
MaxActions == 3
NumDays == 2
HoursPerDay == 2

Sessions == 1..NumSessions
Days == 1..NumDays

---------------------------------------------------------------------------
(* Python values *)

None == << >>
Some(x) == <<x>>
Val(o) == o[1]

\* bool(x) of a str or a list: "" and [] are falsy
Truthy(x) == x # << >>

\* bool(x) of an Optional[str]: None and "" are falsy
TruthyOpt(o) == o # None /\ Val(o) # << >>

\* bool(d) of an Optional[dict]: None and {} are falsy
TruthyDict(o) == o # None /\ DOMAIN Val(o) # {}

\* dict.get(key, default)
Get(d, key, default) == IF key \in DOMAIN d THEN d[key] ELSE default

SeqToSet(s) == {s[i] : i \in DOMAIN s}

\* str.split(","): "".split(",") is [""]
RECURSIVE Split(_)
Split(s) ==
    IF \A i \in DOMAIN s : s[i] # ","
    THEN <<s>>
    ELSE LET i == CHOOSE j \in DOMAIN s :
                      s[j] = "," /\ \A k \in 1..(j - 1) : s[k] # ","
         IN  <<SubSeq(s, 1, i - 1)>> \o Split(SubSeq(s, i + 1, Len(s)))

\* str.strip()
RECURSIVE Strip(_)
Strip(s) ==
    IF s = << >> THEN s
    ELSE IF Head(s) = " " THEN Strip(Tail(s))
    ELSE IF s[Len(s)] = " " THEN Strip(SubSeq(s, 1, Len(s) - 1))
    ELSE s

\* [w.strip() for w in text.split(",") if w.strip()]
RECURSIVE StripNonEmpty(_)
StripNonEmpty(parts) ==
    IF parts = << >> THEN << >>
    ELSE (IF Truthy(Strip(Head(parts))) THEN <<Strip(Head(parts))>> ELSE << >>)
         \o StripNonEmpty(Tail(parts))

SplitNames(text) == StripNonEmpty(Split(text))

---------------------------------------------------------------------------
(* The warehouse: five pre-aggregated views *)

MV_WAREHOUSE_USAGE == "MV_WAREHOUSE_USAGE"
MV_SPCS_USAGE == "MV_SPCS_USAGE"
MV_PIPE_USAGE == "MV_PIPE_USAGE"
MV_SERVERLESS_TASK_USAGE == "MV_SERVERLESS_TASK_USAGE"
MV_CORTEX_FUNCTION_CREDIT_USAGE == "MV_CORTEX_FUNCTION_CREDIT_USAGE"

\* in the order render_consumption_tab fetches them
ViewNames ==
    <<MV_WAREHOUSE_USAGE, MV_SPCS_USAGE, MV_PIPE_USAGE,
      MV_SERVERLESS_TASK_USAGE, MV_CORTEX_FUNCTION_CREDIT_USAGE>>

Views == SeqToSet(ViewNames)

\* the filter_dict key holding the names of a view's resources
NameKey(view_name) ==
    CASE view_name = MV_WAREHOUSE_USAGE -> "warehouses"
      [] view_name = MV_PIPE_USAGE -> "pipes"
      [] view_name = MV_SERVERLESS_TASK_USAGE -> "serverless_tasks"
      [] view_name = MV_SPCS_USAGE -> "compute_pools"
      [] OTHER -> "none"

NameFilteredViews == {v \in Views : NameKey(v) # "none"}

Tag(n, v) == [tag_name |-> <<n>>, tag_value |-> <<v>>]

\* HOUR_START of the h-th hour (0-based) of day d
Hour(d, h) == (d - 1) * HoursPerDay + h

\* datetime.combine(date, time.min) and datetime.combine(date, time.max)
DayStart(d) == Hour(d, 0)
DayEnd(d) == Hour(d, HoursPerDay - 1)

\* one row of a view: HOUR_START, the resource column (the second column),
\* the primary credit measure and the TAGS array
Row(d, h, name, credits, tags) ==
    [hour_start |-> Hour(d, h), name |-> <<name>>, credits |-> credits,
     tags |-> Some(tags), k |-> 0]

\* The rows of each view, keyed by (HOUR_START, resource name).
ViewRows(view_name) ==
    CASE view_name = MV_WAREHOUSE_USAGE ->
            { Row(1, 0, "A", 2, <<Tag("env", "prod"), Tag("team", "prod"),
                                  Tag("owner", "core")>>),
              Row(1, 1, "A", 3, <<Tag("env", "dev")>>),
              Row(2, 0, "B", 5, << >>),
              Row(2, 1, "a", 7, <<Tag("env", "prod"), Tag("team", "core")>>) }
      [] view_name = MV_SPCS_USAGE ->
            { Row(1, 0, "A", 1, <<Tag("env", "prod")>>),
              Row(2, 1, "B", 4, <<Tag("env", "dev")>>) }
      [] view_name = MV_PIPE_USAGE ->
            { Row(1, 1, "A", 2, <<Tag("env", "dev")>>),
              Row(2, 0, "B", 1, <<Tag("env", "prod")>>) }
      [] view_name = MV_SERVERLESS_TASK_USAGE ->
            { Row(1, 0, "B", 3, <<Tag("team", "core")>>),
              Row(2, 0, "A", 2, <<Tag("env", "prod")>>) }
      [] OTHER ->
            { Row(1, 1, "A", 6, <<Tag("env", "prod")>>),
              Row(2, 1, "B", 1, <<Tag("env", "dev")>>) }

\* the views that have a TAGS column (four of the five)
DefaultTagged == Views \ {MV_CORTEX_FUNCTION_CREDIT_USAGE}

\* _session.table(...): a view without a TAGS column has no tags in its rows
Table(tagged, view_name) ==
    IF view_name \in tagged
    THEN ViewRows(view_name)
    ELSE {[r EXCEPT !.tags = None] : r \in ViewRows(view_name)}

\* The session handle: which views carry a TAGS column, and how many loads
\* of new usage the warehouse has had when the query runs.
SessionAt(tagged, loaded) == [tagged |-> tagged, loaded |-> loaded]

Session(tagged) == SessionAt(tagged, 0)

\* a load of new usage: each load adds a thousandth of a credit to the rows
\* of the latest hour bucket of a view
Loaded(table, loaded) ==
    {IF \A x \in table : x.hour_start <= r.hour_start
     THEN [r EXCEPT !.credits = @ + loaded]
     ELSE r : r \in table}

\* _session.table(f"FROSTFORECAST.SOURCE_DATA.{view_name}")
SessionTable(_session, view_name) ==
    Loaded(Table(_session.tagged, view_name), _session.loaded)

\* LATERAL FLATTEN(input => t."TAGS") f WHERE f.value:tag_value IN (tags):
\* one row per row of the view and matching element of its TAGS, carrying an
\* array of that one element.
FlattenedTags(_session, view_name, tags) ==
    UNION { { [tag_hour_start |-> t.hour_start, resource_name |-> t.name,
               filtered_tags |-> <<Val(t.tags)[i]>>, k |-> i] :
                 i \in {j \in DOMAIN Val(t.tags) :
                           Val(t.tags)[j].tag_value \in SeqToSet(tags)} } :
            t \in {r \in SessionTable(_session, view_name) : r.tags # None} }

\* the join without replacing the TAGS column: every row keeps its own tags
JoinKeepingTags(table, flattened_tags) ==
    UNION { LET m == {f \in flattened_tags :
                        /\ f.tag_hour_start = t.hour_start
                        /\ f.resource_name = t.name}
            IN  IF m = {} THEN {t} ELSE {[t EXCEPT !.k = f.k] : f \in m} :
            t \in table }

\* table.join(flattened_tags, on HOUR_START and the resource column, how="left")
\*      .drop("TAGS").select(..., filtered_tags AS TAGS)
JoinFilteredTags(table, flattened_tags) ==
    UNION { LET m == {f \in flattened_tags :
                        /\ f.tag_hour_start = t.hour_start
                        /\ f.resource_name = t.name}
            IN  IF m = {}
                THEN {[t EXCEPT !.tags = None]}
                ELSE {[t EXCEPT !.tags = Some(f.filtered_tags), !.k = f.k] : f \in m} :
            t \in table }

\* upper-casing of the sample names
Fold(name) ==
    IF name = <<"a">> THEN <<"A">> ELSE IF name = <<"b">> THEN <<"B">> ELSE name

\* a name match that ignores case
FilterNamesIgnoringCase(table, names) ==
    {r \in table : Fold(r.name) \in {Fold(n) : n \in SeqToSet(names)}}

\* col(name_column).isin(names)
FilterNames(table, names) == {r \in table : r.name \in SeqToSet(names)}

\* the name branch without the early return: no names, no filter
ApplyNameFilterNoSkip(table, view_name, d) ==
    IF view_name \notin NameFilteredViews THEN [skip |-> FALSE, table |-> table]
    ELSE IF ~Truthy(Get(d, NameKey(view_name), None))
    THEN [skip |-> FALSE, table |-> table]
    ELSE [skip |-> FALSE, table |-> FilterNames(table, SplitNames(d[NameKey(view_name)]))]

\* the resource-specific branch of fetch_materialized_view_data: the table
\* after the name filter, or "skip" for the early return of an empty DataFrame
ApplyNameFilter(table, view_name, d) ==
    IF view_name \notin NameFilteredViews THEN [skip |-> FALSE, table |-> table]
    ELSE IF ~Truthy(Get(d, NameKey(view_name), None))
    THEN [skip |-> TRUE, table |-> {}]
    ELSE LET names == SplitNames(d[NameKey(view_name)])
         IN  IF view_name = MV_SPCS_USAGE /\ names = << >>
             THEN [skip |-> FALSE, table |-> table]
             ELSE [skip |-> FALSE, table |-> FilterNames(table, names)]

\* a tag branch that does not exempt the compute pools
ApplyTagFilterAllKinds(_session, table, view_name, d) ==
    IF /\ view_name \in _session.tagged
       /\ Truthy(Get(d, "tags", None))
    THEN LET tags == SplitNames(d["tags"])
         IN  IF tags # << >>
             THEN JoinFilteredTags(table, FlattenedTags(_session, view_name, tags))
             ELSE table
    ELSE table

\* the tag branch of fetch_materialized_view_data
ApplyTagFilter(_session, table, view_name, d) ==
    IF /\ view_name \in _session.tagged
       /\ Truthy(Get(d, "tags", None))
       /\ view_name # MV_SPCS_USAGE
    THEN LET tags == SplitNames(d["tags"])
         IN  IF tags # << >>
             THEN JoinFilteredTags(table, FlattenedTags(_session, view_name, tags))
             ELSE table
    ELSE table

\* a time range that excludes its end
ApplyTimeRangeHalfOpen(table, start_ts, end_ts) ==
    IF start_ts # None /\ end_ts # None
    THEN {r \in table : r.hour_start >= Val(start_ts) /\ r.hour_start < Val(end_ts)}
    ELSE table

\* HOUR_START >= start_ts AND HOUR_START <= end_ts, when both are given
ApplyTimeRange(table, start_ts, end_ts) ==
    IF start_ts # None /\ end_ts # None
    THEN {r \in table : r.hour_start >= Val(start_ts) /\ r.hour_start <= Val(end_ts)}
    ELSE table

\* the part of fetch_materialized_view_data after the name branch
FetchFiltered(_session, named, view_name, filter_dict, start_ts, end_ts) ==
    IF named.skip
    THEN [df |-> {}, queried |-> FALSE]
    ELSE [df |-> ApplyTimeRange(
                    ApplyTagFilter(_session, named.table, view_name, filter_dict),
                    start_ts, end_ts),
          queried |-> TRUE]

\* fetch_materialized_view_data: df is the returned DataFrame, queried tells
\* whether table.to_pandas() ran a query
fetch_materialized_view_data(_session, view_name, filter_dict, start_ts, end_ts) ==
    IF TruthyDict(filter_dict)
    THEN FetchFiltered(_session,
                       ApplyNameFilter(SessionTable(_session, view_name), view_name,
                                       Val(filter_dict)),
                       view_name, Val(filter_dict), start_ts, end_ts)
    ELSE [df |-> ApplyTimeRange(SessionTable(_session, view_name), start_ts, end_ts),
          queried |-> TRUE]

---------------------------------------------------------------------------
(* The script: st.session_state, the tabs and main() *)

\* price_per_credit default 3.0
DefaultPrice == 3
\* growth rate default 0.5 %, counted in tenths of a percent
DefaultGrowth == 5

\* the keys of growth_rates; prediction_data has the key <kind>_cost for each
Kinds == {"warehouse", "compute_pool", "pipe", "serverless_task", "cortex_function"}

KindView(kind) ==
    CASE kind = "warehouse" -> MV_WAREHOUSE_USAGE
      [] kind = "compute_pool" -> MV_SPCS_USAGE
      [] kind = "pipe" -> MV_PIPE_USAGE
      [] kind = "serverless_task" -> MV_SERVERLESS_TASK_USAGE
      [] OTHER -> MV_CORTEX_FUNCTION_CREDIT_USAGE

\* st.session_state[key] = value
Put(ss, key, value) ==
    [x \in DOMAIN ss \cup {key} |-> IF x = key THEN value ELSE ss[x]]

\* the defaults of a new session; the date range starts as the whole range
initialize_session_state ==
    [start_date |-> 1, end_date |-> NumDays, price_per_credit |-> DefaultPrice,
     filter_submitted |-> FALSE, filter_data |-> None, selected_tag |-> None,
     selected_filter |-> << >>, warehouse_input |-> << >>, tags_input |-> << >>,
     pipe_input |-> << >>, serverless_task_input |-> << >>,
     compute_pool_input |-> << >>, prediction_data |-> None,
     growth_rates |-> [kind \in Kinds |-> DefaultGrowth]]

\* json.dumps: a str becomes a JSON string, None becomes null.  Only the key
\* selected_tag holds an Optional.
JsonString(text) == [type |-> "string", value |-> text]
JsonNull == [type |-> "null"]

json_dumps(d) ==
    [key \in DOMAIN d |->
        IF key = "selected_tag"
        THEN (IF d[key] = None THEN JsonNull ELSE JsonString(Val(d[key])))
        ELSE JsonString(d[key])]

\* json.loads that reads null as the empty string
JsonLoadsNullAsEmpty(doc) ==
    [key \in DOMAIN doc |->
        IF key = "selected_tag"
        THEN (IF doc[key].type = "null" THEN Some(<< >>) ELSE Some(doc[key].value))
        ELSE doc[key].value]

\* json.loads of a stored document
json_loads(doc) ==
    [key \in DOMAIN doc |->
        IF key = "selected_tag"
        THEN (IF doc[key].type = "null" THEN None ELSE Some(doc[key].value))
        ELSE doc[key].value]

\* SELECT FILTER_ID FROM FILTER_SETTINGS
FilterIds(rows) == {rows[i].FILTER_ID : i \in DOMAIN rows}

\* an INSERT in place of the MERGE
InsertAlways(rows, filter_id, filter_data_json) ==
    Append(rows, [FILTER_ID |-> filter_id, FILTER_DATA |-> filter_data_json])

\* MERGE INTO FILTER_SETTINGS ... ON target.FILTER_ID = source.FILTER_ID
Merge(rows, filter_id, filter_data_json) ==
    IF \E i \in DOMAIN rows : rows[i].FILTER_ID = filter_id
    THEN [i \in DOMAIN rows |->
            IF rows[i].FILTER_ID = filter_id
            THEN [rows[i] EXCEPT !.FILTER_DATA = filter_data_json]
            ELSE rows[i]]
    ELSE Append(rows, [FILTER_ID |-> filter_id, FILTER_DATA |-> filter_data_json])

\* fetch_warehouse_tags: the options of the tag selectbox, "" first
fetch_warehouse_tags ==
    {<< >>} \cup
    UNION { {Val(r.tags)[i].tag_name : i \in DOMAIN Val(r.tags)} :
            r \in {x \in ViewRows(MV_WAREHOUSE_USAGE) : x.tags # None} }

\* the widget values a form submission commits to st.session_state before
\* the script runs (the text inputs are keyed by their session_state keys)
CommitWidgets(ss, e) ==
    IF e.type = "submit_form"
    THEN Put([ss EXCEPT !.warehouse_input = e.warehouses, !.tags_input = e.tags,
                        !.pipe_input = e.pipes,
                        !.serverless_task_input = e.serverless_tasks,
                        !.compute_pool_input = e.compute_pools],
             "filter_id_input", e.filter_id)
    ELSE ss

\* a "Query All Data" that also drops the captured prediction
QueryAllDataResetting(ss) ==
    [ss EXCEPT !.filter_submitted = TRUE, !.filter_data = None,
               !.selected_tag = None, !.selected_filter = << >>,
               !.prediction_data = None]

\* the "Query All Data" button
QueryAllData(ss) ==
    [ss EXCEPT !.filter_submitted = TRUE, !.filter_data = None,
               !.selected_tag = None, !.selected_filter = << >>]

\* the value of the selectbox "filter_select": the user's choice, or the
\* option at the index of st.session_state["selected_filter"]
FilterSelectValue(ss, rows, e) ==
    IF e.type = "select_filter" THEN e.value
    ELSE IF ss.selected_filter \in FilterIds(rows) THEN ss.selected_filter
    ELSE << >>

\* a load that also makes the preset the active filter
LoadInputsApplying(ss, filter_dict, selected_filter) ==
    Put(Put([ss EXCEPT
               !.warehouse_input = Get(filter_dict, "warehouses", << >>),
               !.tags_input = Get(filter_dict, "tags", << >>),
               !.pipe_input = Get(filter_dict, "pipes", << >>),
               !.serverless_task_input = Get(filter_dict, "serverless_tasks", << >>),
               !.compute_pool_input = Get(filter_dict, "compute_pools", << >>),
               !.selected_tag = Get(filter_dict, "selected_tag", None),
               !.filter_submitted = TRUE,
               !.filter_data = Some(filter_dict)],
            "filter_id_input", selected_filter),
        "last_loaded_filter", selected_filter)

\* the assignments that load a preset's dict into the inputs
LoadInputs(ss, filter_dict, selected_filter) ==
    Put(Put([ss EXCEPT
               !.warehouse_input = Get(filter_dict, "warehouses", << >>),
               !.tags_input = Get(filter_dict, "tags", << >>),
               !.pipe_input = Get(filter_dict, "pipes", << >>),
               !.serverless_task_input = Get(filter_dict, "serverless_tasks", << >>),
               !.compute_pool_input = Get(filter_dict, "compute_pools", << >>),
               !.selected_tag = Get(filter_dict, "selected_tag", None)],
            "filter_id_input", selected_filter),
        "last_loaded_filter", selected_filter)

\* SELECT FILTER_DATA FROM FILTER_SETTINGS WHERE FILTER_ID = selected_filter
SelectFilterData(rows, selected_filter) ==
    SelectSeq(rows, LAMBDA r : r.FILTER_ID = selected_filter)

\* loading the selected preset, given the rows the SELECT returned
LoadFilter(ss, filter_data, selected_filter) ==
    IF filter_data = << >> THEN ss
    ELSE LoadInputs(ss, json_loads(filter_data[1].FILTER_DATA), selected_filter)

\* the branch taken when the selectbox differs from selected_filter;
\* fail = "load" is a failure of the SELECT of the document (or of json.loads)
ChangeSelectedFilter(ss, rows, selected_filter, fail) ==
    IF ~Truthy(selected_filter)
    THEN [ss |-> [ss EXCEPT !.selected_filter = selected_filter], failed |-> FALSE]
    ELSE IF fail = "load"
    THEN [ss |-> [ss EXCEPT !.selected_filter = selected_filter], failed |-> TRUE]
    ELSE [ss |-> LoadFilter([ss EXCEPT !.selected_filter = selected_filter],
                            SelectFilterData(rows, selected_filter), selected_filter),
          failed |-> FALSE]

\* the selectbox of saved filters, given its value
OnFilterSelect(ss, rows, selected_filter, fail) ==
    IF selected_filter = ss.selected_filter
    THEN [ss |-> ss, failed |-> FALSE]
    ELSE ChangeSelectedFilter(ss, rows, selected_filter, fail)

SelectSavedFilter(ss, rows, e, fail) ==
    OnFilterSelect(ss, rows, FilterSelectValue(ss, rows, e), fail)

\* the "Submit Tag" button
SubmitTag(ss, selected_tag) ==
    [ss EXCEPT !.selected_tag = IF Truthy(selected_tag) THEN Some(selected_tag) ELSE None,
               !.filter_submitted = TRUE]

\* the dict the form builds from its inputs
FormFilterData(ss) ==
    [warehouses |-> ss.warehouse_input, tags |-> ss.tags_input,
     pipes |-> ss.pipe_input, serverless_tasks |-> ss.serverless_task_input,
     compute_pools |-> ss.compute_pool_input, selected_tag |-> ss.selected_tag]

\* the body of "if submit_button and filter_id"; fail = "save" is a failure
\* of the MERGE
SaveFilter(ss, rows, filter_id, filter_data, fail) ==
    IF fail = "save"
    THEN [ss |-> ss, rows |-> rows, failed |-> TRUE, saved |-> FALSE]
    ELSE [ss |-> Put([ss EXCEPT !.filter_submitted = TRUE,
                                !.filter_data = Some(filter_data),
                                !.selected_filter = filter_id],
                     "last_loaded_filter", filter_id),
          rows |-> Merge(rows, filter_id, json_dumps(filter_data)),
          failed |-> FALSE, saved |-> TRUE]

\* a "Submit" that saves whatever the name
SubmitFormUnnamed(ss, rows, fail) ==
    SaveFilter(ss, rows, Get(ss, "filter_id_input", << >>), FormFilterData(ss), fail)

\* the form's "Submit"
SubmitForm(ss, rows, fail) ==
    IF ~Truthy(Get(ss, "filter_id_input", << >>))
    THEN [ss |-> ss, rows |-> rows, failed |-> FALSE, saved |-> FALSE]
    ELSE SaveFilter(ss, rows, ss.filter_id_input, FormFilterData(ss), fail)

\* the tag column and the form, after the selectbox of saved filters
AfterFilterSelect(sel, rows, e, fail) ==
    IF sel.failed
    THEN [ss |-> sel.ss, rows |-> rows, failed |-> TRUE, saved |-> FALSE]
    ELSE IF e.type = "submit_tag"
    THEN [ss |-> SubmitTag(sel.ss, e.value), rows |-> rows, failed |-> FALSE,
          saved |-> FALSE]
    ELSE IF e.type = "submit_form" THEN SubmitForm(sel.ss, rows, fail)
    ELSE [ss |-> sel.ss, rows |-> rows, failed |-> FALSE, saved |-> FALSE]

render_resource_submission_tab(ss, rows, e, fail) ==
    AfterFilterSelect(
        SelectSavedFilter(IF e.type = "query_all" THEN QueryAllData(ss) ELSE ss,
                          rows, e, fail),
        rows, e, fail)

\* sum of the primary credit column of a DataFrame
RECURSIVE Credits(_)
Credits(df) ==
    IF df = {} THEN 0
    ELSE LET r == CHOOSE x \in df : TRUE IN r.credits + Credits(df \ {r})

\* the dict "Generate Prediction" captures, keyed by kind
PredictionData(dfs, price_per_credit) ==
    [kind \in Kinds |->
        IF dfs[KindView(kind)] # {}
        THEN Credits(dfs[KindView(kind)]) * price_per_credit
        ELSE 0]

\* the date range and the price inputs
DateAndPrice(ss, e) ==
    IF e.type = "date_range"
    THEN [ss EXCEPT !.start_date = e.start_date, !.end_date = e.end_date]
    ELSE IF e.type = "price"
    THEN [ss EXCEPT !.price_per_credit = e.value]
    ELSE ss

\* the five fetches of render_consumption_tab
FetchAll(ss) ==
    [v \in Views |->
        fetch_materialized_view_data(Session(DefaultTagged), v, ss.filter_data,
                                     Some(DayStart(ss.start_date)),
                                     Some(DayEnd(ss.end_date))).df]

\* the "Generate Prediction" button, given the five DataFrames
GeneratePrediction(ss, dfs, e) ==
    [ss |-> IF e.type = "generate_prediction"
            THEN Put([ss EXCEPT !.prediction_data =
                          Some(PredictionData(dfs, ss.price_per_credit))],
                     "active_tab", "FrostForecast Consumption Predictions")
            ELSE ss,
     failed |-> FALSE, shown |-> Some(dfs)]

\* the consumption tab without the filter_submitted guard
ConsumptionViewUnguarded(ss, e, fail) ==
    IF fail = "fetch"
    THEN [ss |-> ss, failed |-> TRUE, shown |-> None]
    ELSE GeneratePrediction(ss, FetchAll(ss), e)

\* the part of render_consumption_tab below the inputs, given the DataFrames
\* its five fetches return; fail = "fetch" is a failure of a query of the
\* five fetches
ConsumptionViewGiven(ss, e, fail, dfs) ==
    IF ~ss.filter_submitted
    THEN [ss |-> ss, failed |-> FALSE, shown |-> None]
    ELSE IF fail = "fetch"
    THEN [ss |-> ss, failed |-> TRUE, shown |-> None]
    ELSE GeneratePrediction(ss, dfs, e)

\* the part of render_consumption_tab below the inputs, while the warehouse
\* has no new load: a fetch served from the cache returns what the query
\* returns
ConsumptionView(ss, e, fail) == ConsumptionViewGiven(ss, e, fail, FetchAll(ss))

render_consumption_tab(ss, e, fail) == ConsumptionView(DateAndPrice(ss, e), e, fail)

\* growth-rate inputs for every kind, whatever its captured cost
GrowthInputsAllKinds(ss, e) ==
    IF ss.filter_submitted /\ ss.prediction_data # None
    THEN [ss EXCEPT !.growth_rates =
            [kind \in Kinds |->
                IF e.type = "growth" /\ e.kind = kind
                THEN e.value
                ELSE ss.growth_rates[kind]]]
    ELSE ss

\* the growth-rate inputs: one per kind whose captured cost is positive
render_predictions_tab(ss, e) ==
    IF ss.filter_submitted /\ ss.prediction_data # None
    THEN [ss EXCEPT !.growth_rates =
            [kind \in Kinds |->
                IF /\ Val(ss.prediction_data)[kind] > 0
                   /\ e.type = "growth"
                   /\ e.kind = kind
                THEN e.value
                ELSE ss.growth_rates[kind]]]
    ELSE ss

\* the tabs after the consumption tab
AfterConsumption(tab1, tab2, e) ==
    IF tab2.failed
    THEN [ss |-> tab2.ss, rows |-> tab1.rows, failed |-> TRUE, saved |-> tab1.saved,
          fetched |-> TRUE, shown |-> None]
    ELSE [ss |-> render_predictions_tab(tab2.ss, e), rows |-> tab1.rows,
          failed |-> FALSE, saved |-> tab1.saved,
          fetched |-> tab2.shown # None, shown |-> tab2.shown]

\* the tabs after the resource submission tab; an exception ends the run
AfterResourceSubmission(tab1, e, fail) ==
    IF tab1.failed
    THEN [ss |-> tab1.ss, rows |-> tab1.rows, failed |-> TRUE, saved |-> FALSE,
          fetched |-> FALSE, shown |-> None]
    ELSE AfterConsumption(tab1, render_consumption_tab(tab1.ss, e, fail), e)

\* one run of the script for the widget event e of a session
main(ss, rows, e, fail) ==
    AfterResourceSubmission(
        render_resource_submission_tab(CommitWidgets(ss, e), rows, e, fail), e, fail)

---------------------------------------------------------------------------
(* User interactions: each one runs the script once *)

IdleCall == [phase |-> "idle"]

\* st.cache_data before its first call; shared tells whether the platform
\* keeps one cache for all sessions or one per session
EmptyCache(shared) == [shared |-> shared, entries |-> {}]

\* names a user gives a preset
PresetNames == {<<"P1">>, <<"P2">>}

\* what a user types into the five text inputs of the form
FormFills ==
    { [warehouses |-> << >>, tags |-> << >>, pipes |-> << >>,
       serverless_tasks |-> << >>, compute_pools |-> << >>],
      [warehouses |-> <<" ", "A", " ", ",", "b", ",", ",">>, tags |-> <<"prod">>,
       pipes |-> <<"A">>, serverless_tasks |-> << >>, compute_pools |-> <<",", " ">>],
      [warehouses |-> <<"B">>, tags |-> << >>, pipes |-> << >>,
       serverless_tasks |-> <<"A", ",", "B">>, compute_pools |-> <<"B">>] }

Prices == {0, DefaultPrice}
GrowthRates == {0, DefaultGrowth, 100}

InitSessions ==
    /\ session_state = [s \in Sessions |-> initialize_session_state]
    /\ filter_settings = << >>
    /\ last = [session |-> 0, event |-> [type |-> "start"], failed |-> "none",
               fetched |-> FALSE, shown |-> None, at |-> 0]
    /\ saved = << >>
    /\ nactions = 0
    /\ now = 0
    /\ loads = << >>

\* the queries of a run that can fail
FailPoints(s, e) ==
    {"none"}
    \cup (IF e.type = "select_filter" /\ Truthy(e.value) THEN {"load"} ELSE {})
    \cup (IF e.type = "submit_form" /\ Truthy(e.filter_id) THEN {"save"} ELSE {})
    \cup (IF main(session_state[s], filter_settings, e, "none").fetched
          THEN {"fetch"} ELSE {})

\* a run that keeps the submitted filter in a global of the process instead
\* of st.session_state
RecordedGlobally(s, e, fail, r) ==
    /\ session_state' =
          [t \in Sessions |->
              IF t = s THEN r.ss
              ELSE [session_state[t] EXCEPT !.filter_submitted = r.ss.filter_submitted,
                                            !.filter_data = r.ss.filter_data]]
    /\ filter_settings' = r.rows
    /\ saved' = IF r.saved THEN Put(saved, e.filter_id, Val(r.ss.filter_data)) ELSE saved
    /\ last' = [session |-> s, event |-> e,
                failed |-> IF r.failed THEN fail ELSE "none",
                fetched |-> r.fetched, shown |-> r.shown, at |-> now]
    /\ nactions' = nactions + 1

\* what a run of the script by session s for the event e leaves, r being
\* its result
Recorded(s, e, fail, r) ==
    /\ session_state' = [session_state EXCEPT ![s] = r.ss]
    /\ filter_settings' = r.rows
    /\ saved' = IF r.saved THEN Put(saved, e.filter_id, Val(r.ss.filter_data)) ELSE saved
    /\ last' = [session |-> s, event |-> e,
                failed |-> IF r.failed THEN fail ELSE "none",
                fetched |-> r.fetched, shown |-> r.shown, at |-> now]
    /\ nactions' = nactions + 1

\* the state after session s ran the script for the event e with result r
Ran(s, e, fail, r) ==
    /\ Recorded(s, e, fail, r)
    /\ UNCHANGED <<call, cache, now, loads>>

\* session s runs the script for the event e
Interact(s, e) ==
    /\ nactions < MaxActions
    /\ \E fail \in FailPoints(s, e) :
         Ran(s, e, fail, main(session_state[s], filter_settings, e, fail))

ClickQueryAll(s) ==
    /\ s \in Sessions
    /\ Interact(s, [type |-> "query_all"])

ChooseSavedFilter(s) ==
    /\ s \in Sessions
    /\ \E value \in ({<< >>} \cup FilterIds(filter_settings))
                    \ {FilterSelectValue(session_state[s], filter_settings,
                                          [type |-> "none"])} :
        Interact(s, [type |-> "select_filter", value |-> value])

ClickSubmitTag(s) ==
    /\ s \in Sessions
    /\ \E value \in fetch_warehouse_tags :
         Interact(s, [type |-> "submit_tag", value |-> value])

ClickFormSubmit(s) ==
    /\ s \in Sessions
    /\ \E filter_id \in PresetNames \cup {<< >>}, f \in FormFills :
         Interact(s, [type |-> "submit_form", filter_id |-> filter_id,
                      warehouses |-> f.warehouses, tags |-> f.tags, pipes |-> f.pipes,
                      serverless_tasks |-> f.serverless_tasks,
                      compute_pools |-> f.compute_pools])

ChangeDateRange(s) ==
    \E sd \in Days, ed \in Days :
        /\ sd <= ed
        /\ <<sd, ed>> # <<session_state[s].start_date, session_state[s].end_date>>
        /\ Interact(s, [type |-> "date_range", start_date |-> sd, end_date |-> ed])

ChangePrice(s) ==
    /\ s \in Sessions
    /\ \E value \in Prices \ {session_state[s].price_per_credit} :
        Interact(s, [type |-> "price", value |-> value])

\* the button is rendered only once a filter is submitted
ClickGeneratePrediction(s) ==
    /\ session_state[s].filter_submitted
    /\ Interact(s, [type |-> "generate_prediction"])

\* a growth-rate input is rendered only for a kind with a positive captured cost
ChangeGrowthRate(s) ==
    /\ session_state[s].filter_submitted
    /\ session_state[s].prediction_data # None
    /\ \E kind \in Kinds, value \in GrowthRates :
         /\ Val(session_state[s].prediction_data)[kind] > 0
         /\ value # session_state[s].growth_rates[kind]
         /\ Interact(s, [type |-> "growth", kind |-> kind, value |-> value])

Init ==
    /\ InitSessions
    /\ call = IdleCall
    /\ cache = EmptyCache(FALSE)

Next ==
    \E s \in Sessions :
        \/ ClickQueryAll(s)
        \/ ChooseSavedFilter(s)
        \/ ClickSubmitTag(s)
        \/ ClickFormSubmit(s)
        \/ ChangeDateRange(s)
        \/ ChangePrice(s)
        \/ ClickGeneratePrediction(s)
        \/ ChangeGrowthRate(s)

Spec == Init /\ [][Next]_vars

---------------------------------------------------------------------------
(* Claims about the sessions (checked under Spec) *)

\* the session of the last run, after it
LastState == session_state[last.session]

\* the last run was the widget event of this type and ran to its end
Completed(type) ==
    last.session \in Sessions /\ last.event.type = type /\ last.failed = "none"

\* the rows of the preset table stored under a name
RowsOf(filter_id) ==
    {i \in DOMAIN filter_settings : filter_settings[i].FILTER_ID = filter_id}

\* C4 as claimed: after "Submit Tag" with a tag T, the consumption tab shows
\* data filtered by T: every warehouse row shown carries a tag named T.
C4_TagFiltersData ==
    (Completed("submit_tag") /\ Truthy(last.event.value)) =>
        /\ last.shown # None
        /\ \A r \in Val(last.shown)[MV_WAREHOUSE_USAGE] :
              /\ r.tags # None
              /\ \E i \in DOMAIN Val(r.tags) : Val(r.tags)[i].tag_name = last.event.value

\* C5 as claimed: "Query All Data" leaves the session submitted with
\* filter_data None; a tag submission and a named form submission each leave
\* it submitted with a concrete filter_data.
C5_SubmissionSetsFilter ==
    /\ (last.session \in Sessions /\ last.event.type = "query_all") =>
           (LastState.filter_submitted /\ LastState.filter_data = None)
    /\ Completed("submit_tag") =>
           (LastState.filter_submitted /\ LastState.filter_data # None)
    /\ (Completed("submit_form") /\ Truthy(last.event.filter_id)) =>
           (LastState.filter_submitted /\ LastState.filter_data # None)

\* C6: filter_submitted starts False and never returns to False, a captured
\* prediction stays captured, the usage views are fetched only in a session
\* whose filter is submitted, and a captured prediction implies a submitted
\* filter.
C6_SessionAdvances ==
    /\ \A s \in Sessions : ~session_state[s].filter_submitted
    /\ [][\A s \in Sessions :
            /\ session_state[s].filter_submitted => session_state'[s].filter_submitted
            /\ session_state[s].prediction_data # None
                  => session_state'[s].prediction_data # None]_vars
    /\ [](last.fetched => LastState.filter_submitted)
    /\ [](\A s \in Sessions :
            session_state[s].prediction_data # None => session_state[s].filter_submitted)

\* a session that went from no filter to a captured prediction
C6_Witness ==
    /\ Completed("generate_prediction")
    /\ last.fetched
    /\ LastState.prediction_data # None
    /\ \E s \in Sessions : ~session_state[s].filter_submitted

\* C7: prediction_data of a session changes only in a run of that session's
\* "Generate Prediction"; a growth-rate edit changes nothing of the session
\* but growth_rates.
C7_SnapshotOnlyByGenerate ==
    [][\A s \in Sessions :
         /\ session_state'[s].prediction_data # session_state[s].prediction_data
               => (last'.session = s /\ last'.event.type = "generate_prediction")
         /\ (last'.session = s /\ last'.event.type = "growth")
               => session_state'[s] =
                     [session_state[s] EXCEPT
                        !.growth_rates = session_state'[s].growth_rates]]_vars

\* a growth-rate edit made after a prediction with a positive warehouse cost
C7_Witness ==
    /\ Completed("growth")
    /\ last.event.kind = "warehouse"
    /\ LastState.growth_rates["warehouse"] # DefaultGrowth
    /\ LastState.prediction_data # None
    /\ Val(LastState.prediction_data)["warehouse"] > 0

C9_LastWriterWins ==
    /\ FilterIds(filter_settings) = DOMAIN saved
    /\ \A filter_id \in DOMAIN saved :
          /\ Cardinality(RowsOf(filter_id)) = 1
          /\ \A i \in RowsOf(filter_id) :
                filter_settings[i].FILTER_DATA = json_dumps(saved[filter_id])

\* a session overwrote the preset another session saved with other contents,
\* while a second preset exists
C9_Witness ==
    /\ Completed("submit_form")
    /\ Truthy(last.event.filter_id)
    /\ Len(filter_settings) = 2
    /\ \E s \in Sessions \ {last.session} :
          /\ session_state[s].selected_filter = last.event.filter_id
          /\ session_state[s].filter_data # None
          /\ session_state[s].filter_data # LastState.filter_data

\* C10 as claimed: when a run fails (preset load, preset save, data fetch),
\* the session state is what it was before the interaction, the values the
\* user entered into the form apart.
C10_FailureKeepsState ==
    [][last'.failed # "none" =>
         /\ session_state'[last'.session] =
               CommitWidgets(session_state[last'.session], last'.event)
         /\ filter_settings' = filter_settings]_vars

\* the keys of st.session_state a selection of a saved filter may write
SelectKeys ==
    {"selected_filter", "warehouse_input", "tags_input", "pipe_input",
     "serverless_task_input", "compute_pool_input", "selected_tag",
     "filter_id_input", "last_loaded_filter"}

\* what the consumption tab shows for a session state
ShownFor(ss) == IF ss.filter_submitted THEN Some(FetchAll(ss)) ELSE None

\* C25: a selection of a saved filter writes only the selection, the form
\* inputs and the selected tag: filter_data, filter_submitted, every other
\* key of the session and the preset table are unchanged, and the run shows
\* the data of the filter submitted before (or none, if none was).
C25_SelectOnlyLoads ==
    [][(last'.session \in Sessions /\ last'.event.type = "select_filter") =>
         /\ filter_settings' = filter_settings
         /\ saved' = saved
         /\ \A key \in DOMAIN session_state[last'.session] \ SelectKeys :
               /\ key \in DOMAIN session_state'[last'.session]
               /\ session_state'[last'.session][key] = session_state[last'.session][key]
         /\ last'.failed = "none" =>
               last'.shown = ShownFor(session_state[last'.session])]_vars

\* a session whose active filter is one preset loads another preset: the
\* inputs hold the loaded names, the data shown is that of the active filter
C25_Witness ==
    /\ Completed("select_filter")
    /\ Truthy(last.event.value)
    /\ LastState.filter_submitted
    /\ LastState.filter_data # None
    /\ last.shown = Some(FetchAll(LastState))
    /\ Truthy(LastState.warehouse_input)
    /\ LastState.warehouse_input # Val(LastState.filter_data).warehouses
    /\ FetchAll(LastState) #
          FetchAll([LastState EXCEPT !.filter_data = Some(FormFilterData(LastState))])

\* C26: a submission of the form with an empty name changes nothing but the
\* text inputs, which take the entered values: the preset table,
\* filter_submitted, filter_data and selected_filter are unchanged, and the
\* run shows the data of the filter submitted before.
C26_UnnamedSubmitIsNoOp ==
    [][(last'.session \in Sessions /\ last'.event.type = "submit_form"
            /\ ~Truthy(last'.event.filter_id)) =>
         /\ filter_settings' = filter_settings
         /\ saved' = saved
         /\ session_state'[last'.session] =
               CommitWidgets(session_state[last'.session], last'.event)
         /\ session_state'[last'.session].filter_submitted
               = session_state[last'.session].filter_submitted
         /\ session_state'[last'.session].filter_data
               = session_state[last'.session].filter_data
         /\ session_state'[last'.session].selected_filter
               = session_state[last'.session].selected_filter
         /\ last'.failed = "none" =>
               last'.shown = ShownFor(session_state[last'.session])]_vars

\* names entered without a preset name in a session whose active filter
\* names other warehouses, while a preset exists
C26_Witness ==
    /\ Completed("submit_form")
    /\ ~Truthy(last.event.filter_id)
    /\ Truthy(last.event.warehouses)
    /\ LastState.warehouse_input = last.event.warehouses
    /\ LastState.filter_submitted
    /\ LastState.filter_data # None
    /\ Val(LastState.filter_data).warehouses # last.event.warehouses
    /\ filter_settings # << >>
    /\ last.shown = Some(FetchAll(LastState))

---------------------------------------------------------------------------
(* Direct calls of fetch_materialized_view_data on enumerated arguments *)

FilterKeys ==
    {"warehouses", "tags", "pipes", "serverless_tasks", "compute_pools", "selected_tag"}

\* marks a key left out of a dict
Absent == <<"<absent>">>

\* "", " A ,b,," and ", "
NameTexts == { << >>, <<" ", "A", " ", ",", "b", ",", ",">>, <<",", " ">> }

\* "", "prod", " dev,core" and ","
TagTexts == { << >>, <<"prod">>, <<" ", "dev", ",", "core">>, <<",">> }

\* the dict holding the keys whose choice is not Absent
MkDict(c) == [key \in {x \in DOMAIN c : c[x] # Absent} |-> c[key]]

\* every filter_dict with the key selected_tag and any of the other keys
FetchDicts ==
    { MkDict([warehouses |-> w, tags |-> t, pipes |-> p, serverless_tasks |-> st,
              compute_pools |-> cp, selected_tag |-> sel]) :
        w \in NameTexts \cup {Absent}, t \in TagTexts \cup {Absent},
        p \in NameTexts \cup {Absent}, st \in NameTexts \cup {Absent},
        cp \in NameTexts \cup {Absent}, sel \in {None, Some(<<"env">>)} }

TimeRanges ==
    {<<None, None>>}
    \cup {<<Some(DayStart(sd)), Some(DayEnd(ed))>> : sd \in Days, ed \in Days}

\* which views have a TAGS column: the usual four, all five, or all but the warehouse view
Schemas == {DefaultTagged, Views, Views \ {MV_WAREHOUSE_USAGE}}

CallArgs ==
    { [phase |-> "args", tagged |-> tg, view_name |-> v, filter_dict |-> fd,
       start_ts |-> tr[1], end_ts |-> tr[2]] :
        tg \in Schemas, v \in Views,
        fd \in {None} \cup {Some(d) : d \in FetchDicts}, tr \in TimeRanges }

Fetch ==
    /\ call.phase = "args"
    /\ LET r == fetch_materialized_view_data(Session(call.tagged), call.view_name,
                                              call.filter_dict, call.start_ts, call.end_ts)
       IN  call' = [phase |-> "returned", tagged |-> call.tagged,
                    view_name |-> call.view_name, filter_dict |-> call.filter_dict,
                    start_ts |-> call.start_ts, end_ts |-> call.end_ts,
                    df |-> r.df, queried |-> r.queried]
    /\ UNCHANGED <<session_state, filter_settings, last, saved, nactions, cache, now, loads>>

InitFetch ==
    /\ call \in CallArgs
    /\ InitSessions
    /\ cache = EmptyCache(FALSE)

NextFetch == Fetch

SpecFetch == InitFetch /\ [][NextFetch]_vars

---------------------------------------------------------------------------
(* Claims about fetch_materialized_view_data (checked under SpecFetch) *)

\* a concrete filter specification was passed and the call has returned
ReturnedFiltered == call.phase = "returned" /\ call.filter_dict # None

\* the name list of the call's kind is empty or absent
NoNames == ~Truthy(Get(Val(call.filter_dict), NameKey(call.view_name), None))

\* the tag branch applies: a tagged kind other than the compute pools and a
\* tag text that holds at least one value
TagsRequested ==
    /\ ReturnedFiltered
    /\ call.queried
    /\ call.view_name \in call.tagged
    /\ call.view_name # MV_SPCS_USAGE
    /\ Truthy(Get(Val(call.filter_dict), "tags", None))
    /\ SplitNames(Val(call.filter_dict)["tags"]) # << >>

RequestedTags == SeqToSet(SplitNames(Val(call.filter_dict)["tags"]))

\* the row of the view a returned row comes from
BaseRow(r) ==
    CHOOSE b \in ViewRows(call.view_name) :
        b.hour_start = r.hour_start /\ b.name = r.name

\* C1 as claimed: for every kind, the analytics functions included, a concrete
\* filter whose name list for the kind is empty or absent yields an empty
\* table and no query.
C1_AllKindsSkip ==
    (ReturnedFiltered /\ NoNames) => (call.df = {} /\ ~call.queried)

\* C1 amended: for the four kinds that have a name list (warehouse, pipe,
\* serverless task, compute pool), a concrete filter whose name list for the
\* kind is empty or absent yields an empty table and no query.
C1_NamedKindsSkip ==
    (ReturnedFiltered /\ NoNames /\ call.view_name \in NameFilteredViews)
        => (call.df = {} /\ ~call.queried)

\* a pipe fetch skipped although the view has rows in the range and the
\* filter names warehouses
C1_Witness ==
    /\ ReturnedFiltered
    /\ call.view_name = MV_PIPE_USAGE
    /\ "pipes" \notin DOMAIN Val(call.filter_dict)
    /\ Truthy(Get(Val(call.filter_dict), "warehouses", None))
    /\ call.start_ts = Some(DayStart(1))
    /\ call.end_ts = Some(DayEnd(NumDays))
    /\ call.df = {}
    /\ ~call.queried

\* C2 as claimed: with a non-empty tag-value list, every returned row has at
\* least one attached tag whose value is in the list.
C2_OnlyMatchingRows ==
    TagsRequested =>
        \A r \in call.df :
            /\ r.tags # None
            /\ \E i \in DOMAIN Val(r.tags) : Val(r.tags)[i].tag_value \in RequestedTags

\* C3: with a tag filter, every entry of a returned row's tag list is an
\* entry of the row's original tag list whose value is one of the requested
\* values.
C3_OnlyMatchingTags ==
    TagsRequested =>
        \A r \in call.df :
            r.tags # None =>
                \A i \in DOMAIN Val(r.tags) :
                    /\ Val(r.tags)[i].tag_value \in RequestedTags
                    /\ Val(r.tags)[i] \in SeqToSet(Val(BaseRow(r).tags))

\* a returned row that lost a non-matching entry of its original tag list
C3_Witness ==
    /\ TagsRequested
    /\ \E r \in call.df :
          /\ r.tags # None
          /\ Val(r.tags) # << >>
          /\ \E i \in DOMAIN Val(BaseRow(r).tags) :
                Val(BaseRow(r).tags)[i].tag_value \notin RequestedTags

\* the call gave both ends of the time range
RangeGiven == call.start_ts # None /\ call.end_ts # None

\* the rows of the call's view with an hour bucket in [start, end]
RowsInRange ==
    {r \in Table(call.tagged, call.view_name) :
        Val(call.start_ts) <= r.hour_start /\ r.hour_start <= Val(call.end_ts)}

\* the names written in a text: its words (no sample text has a word with
\* inner whitespace)
Words(text) == {<<text[i]>> : i \in {j \in DOMAIN text : text[j] \notin {",", " "}}}

\* C12: with filter_dict None the fetch of each of the five views returns
\* all rows of the view whose hour bucket lies in [start, end], both ends
\* included, whatever their names and tags.
C12_NoFilterReturnsAll ==
    (call.phase = "returned" /\ call.filter_dict = None /\ RangeGiven) =>
        (call.queried /\ call.df = RowsInRange)

\* an unfiltered fetch that returns a row at each end of its range and
\* leaves a row outside
C12_Witness ==
    /\ call.phase = "returned" /\ call.filter_dict = None /\ RangeGiven
    /\ \E r \in call.df : r.hour_start = Val(call.start_ts)
    /\ \E r \in call.df : r.hour_start = Val(call.end_ts)
    /\ call.df # Table(call.tagged, call.view_name)

\* the call names resources of its kind and carries no tag list
NamesOnly ==
    /\ ReturnedFiltered
    /\ RangeGiven
    /\ call.view_name \in NameFilteredViews
    /\ Get(Val(call.filter_dict), NameKey(call.view_name), << >>) # Absent
    /\ Words(Get(Val(call.filter_dict), NameKey(call.view_name), << >>)) # {}
    /\ ~Truthy(Get(Val(call.filter_dict), "tags", None))

\* C13: with names for a name-filtered kind and no tag list, the returned
\* rows are exactly the rows of the view whose name is, case-sensitively,
\* one of the trimmed non-empty names and whose hour bucket is in
\* [start, end].
C13_ExactNameMatch ==
    NamesOnly =>
        call.df = {r \in RowsInRange :
                     r.name \in Words(Val(call.filter_dict)[NameKey(call.view_name)])}

\* names " A ,b,," on the warehouse view: A is returned, a and B are not
C13_Witness ==
    /\ NamesOnly
    /\ call.view_name = MV_WAREHOUSE_USAGE
    /\ \E r \in call.df : r.name = <<"A">>
    /\ \E r \in RowsInRange : r.name = <<"a">>
    /\ \E r \in RowsInRange : r.name = <<"B">>
    /\ \A r \in call.df : r.name \notin {<<"a">>, <<"B">>}

\* the call's filter_dict with another tag text (Absent: without the key)
WithTags(t) ==
    IF t = Absent
    THEN [key \in DOMAIN Val(call.filter_dict) \ {"tags"} |-> Val(call.filter_dict)[key]]
    ELSE [key \in DOMAIN Val(call.filter_dict) \cup {"tags"} |->
            IF key = "tags" THEN t ELSE Val(call.filter_dict)[key]]

\* the call's kind is the compute pools or a view without a TAGS column
TagExempt ==
    /\ ReturnedFiltered
    /\ (call.view_name = MV_SPCS_USAGE \/ call.view_name \notin call.tagged)

\* C14: for the compute pools and for a view without a tag attribute, the
\* fetch returns the same table whatever tag list the filter carries.
C14_TagFilterSkipped ==
    TagExempt =>
        \A t \in TagTexts \cup {Absent} :
            fetch_materialized_view_data(Session(call.tagged), call.view_name,
                                         Some(WithTags(t)), call.start_ts,
                                         call.end_ts).df = call.df

\* a fetch of compute pools whose view has a TAGS column, with a tag list
\* that matches no tag of a returned row
C14_Witness ==
    /\ TagExempt
    /\ call.view_name = MV_SPCS_USAGE
    /\ MV_SPCS_USAGE \in call.tagged
    /\ Truthy(Get(Val(call.filter_dict), "tags", None))
    /\ \E r \in call.df :
          \A i \in DOMAIN Val(r.tags) :
              Val(r.tags)[i].tag_value \notin RequestedTags

\* C23 as claimed: with a tag filter, each row of the view, identified by
\* its hour bucket and its resource name, appears at most once in the
\* result, so the credits of the result sum to no more than those of the
\* same fetch without the tag list.
C23_NoDuplicateUsage ==
    TagsRequested =>
        /\ \A r1 \in call.df, r2 \in call.df :
              (r1.hour_start = r2.hour_start /\ r1.name = r2.name) => r1 = r2
        /\ Credits(call.df) <=
              Credits(fetch_materialized_view_data(
                          Session(call.tagged), call.view_name,
                          Some(WithTags(Absent)), call.start_ts, call.end_ts).df)

\* the name text of the call's kind is not empty and holds no name: only
\* commas and whitespace
BlankNames ==
    /\ ReturnedFiltered
    /\ call.view_name \in NameFilteredViews
    /\ NameKey(call.view_name) \in DOMAIN Val(call.filter_dict)
    /\ Truthy(Val(call.filter_dict)[NameKey(call.view_name)])
    /\ Words(Val(call.filter_dict)[NameKey(call.view_name)]) = {}

\* C24 as claimed: a name text that is not empty and holds no name yields
\* no rows, for the warehouses, the pipes, the serverless tasks and the
\* compute pools alike.
C24_BlankNamesYieldNothing == BlankNames => call.df = {}

---------------------------------------------------------------------------
(* Aggregation and summary: the totals, tiles and daily rollups of           *)
(* render_consumption_tab.  A DataFrame is its set of columns and its rows.  *)
(* Credits are counted in thousandths of a credit and prices in dollars per  *)
(* credit, so costs are counted in thousandths of a dollar.                  *)

\* sum of F[x] over a finite set S
RECURSIVE SetSum(_, _)
SetSum(S, F) ==
    IF S = {} THEN 0
    ELSE LET x == CHOOSE y \in S : TRUE IN F[x] + SetSum(S \ {x}, F)

\* the primary credit column of a view
PrimaryColumn(view_name) ==
    IF view_name = MV_CORTEX_FUNCTION_CREDIT_USAGE
    THEN "cf_total_token_credits"
    ELSE "total_credits_used"

\* the entity-name column the daily rollup groups by; the warehouse rollup
\* groups by day only
GroupColumn(view_name) ==
    CASE view_name = MV_SPCS_USAGE -> "compute_pool_name"
      [] view_name = MV_PIPE_USAGE -> "pipe_name"
      [] view_name = MV_SERVERLESS_TASK_USAGE -> "task_name"
      [] view_name = MV_CORTEX_FUNCTION_CREDIT_USAGE -> "cf_function_name"
      [] OTHER -> "none"

\* the columns the daily rollup aggregates with 'sum'
SummedColumns(view_name) ==
    CASE view_name = MV_PIPE_USAGE -> {"total_credits_used", "total_bytes_inserted"}
      [] view_name = MV_CORTEX_FUNCTION_CREDIT_USAGE ->
            {"cf_total_token_credits", "qh_total_queries", "qh_total_rows_produced",
             "qh_total_rows_updated", "qh_total_credits_used_cloud_services",
             "cf_total_tokens"}
      [] OTHER -> {"total_credits_used"}

\* the columns the daily rollup aggregates with 'first'
FirstColumns(view_name) ==
    IF view_name = MV_CORTEX_FUNCTION_CREDIT_USAGE
    THEN {"cf_model_name", "qh_query_type", "qh_warehouse_name"}
    ELSE {}

\* the columns a tile reads without asking whether the column exists
TileColumns(view_name) ==
    IF view_name = MV_WAREHOUSE_USAGE
    THEN {"compute_credits_used", "cloud_services_credits_used"}
    ELSE {}

\* the columns the section of a view reads without asking whether they exist
RequiredColumns(view_name) ==
    {"hour_start"} \cup ({GroupColumn(view_name)} \ {"none"})
    \cup SummedColumns(view_name) \cup FirstColumns(view_name)
    \cup TileColumns(view_name)

\* the columns the consumption tab expects of a view
ExpectedColumns(view_name) == RequiredColumns(view_name) \cup {PrimaryColumn(view_name)}

\* The DataFrame a fetch returns: pd.DataFrame() of an early return has no
\* columns; a queried one has the columns of its view but the missing ones.
Frame(r, view_name, missing) ==
    [columns |-> IF r.queried THEN ExpectedColumns(view_name) \ missing ELSE {},
     rows |-> r.df]

\* the value of a numeric column in a row: the primary measure is the row's
\* credits; the sample data derives the other measures from the row
Measure(r, column) ==
    IF column \in {"total_credits_used", "cf_total_token_credits"}
    THEN r.credits
    ELSE r.credits + r.hour_start + 1

\* df[column].sum()
ColumnSum(df, column) == SetSum(df.rows, [r \in df.rows |-> Measure(r, column)])

\* df[column].sum() if column in df.columns and not df.empty else 0
GuardedSum(df, column) ==
    IF column \in df.columns /\ df.rows # {} THEN ColumnSum(df, column) ELSE 0

\* total_credits: the five guarded sums
TotalCredits(frames) ==
    GuardedSum(frames[MV_WAREHOUSE_USAGE], "total_credits_used")
    + GuardedSum(frames[MV_SPCS_USAGE], "total_credits_used")
    + GuardedSum(frames[MV_PIPE_USAGE], "total_credits_used")
    + GuardedSum(frames[MV_SERVERLESS_TASK_USAGE], "total_credits_used")
    + GuardedSum(frames[MV_CORTEX_FUNCTION_CREDIT_USAGE], "cf_total_token_credits")

\* a rounding to two decimals that cuts the third one off
Truncate2(x, tie_up) == (x \div 10) * 10

\* round(x, 2) of an amount in thousandths.  An amount that ends in 5 is
\* rounded by its binary representation, down or up: tie_up tells which.
Round2(x, tie_up) ==
    IF x % 10 < 5 \/ (x % 10 = 5 /\ ~tie_up)
    THEN (x \div 10) * 10
    ELSE (x \div 10) * 10 + 10

\* the calendar day of an hour bucket
Day(hour_start) == hour_start \div HoursPerDay + 1

\* the groups of the daily rollup: pd.Grouper(freq='D') alone yields every
\* day from the first to the last; with the name column, the observed pairs
RollupGroups(view_name, rows) ==
    IF GroupColumn(view_name) = "none"
    THEN {[day |-> d, name |-> None] :
            d \in {x \in Days : /\ \E r \in rows : Day(r.hour_start) <= x
                                /\ \E r \in rows : x <= Day(r.hour_start)}}
    ELSE {[day |-> Day(r.hour_start), name |-> Some(r.name)] : r \in rows}

\* the rows of a group
GroupRows(rows, g) ==
    {r \in rows : Day(r.hour_start) = g.day /\ (g.name = None \/ r.name = Val(g.name))}

\* a rollup that sums each distinct record of a group once
DailyRollupDistinct(view_name, df) ==
    {[day |-> g.day, name |-> g.name,
      sums |-> [c \in SummedColumns(view_name) |->
                  SetSum({[r EXCEPT !.k = 0, !.tags = None] : r \in GroupRows(df.rows, g)},
                         [r \in {[x EXCEPT !.k = 0, !.tags = None] :
                                    x \in GroupRows(df.rows, g)} |-> Measure(r, c)])]] :
        g \in RollupGroups(view_name, df.rows)}

\* df.groupby([pd.Grouper(key='hour_start', freq='D'), name]).agg(sum)
DailyRollup(view_name, df) ==
    {[day |-> g.day, name |-> g.name,
      sums |-> [c \in SummedColumns(view_name) |->
                  SetSum(GroupRows(df.rows, g),
                         [r \in GroupRows(df.rows, g) |-> Measure(r, c)])]] :
        g \in RollupGroups(view_name, df.rows)}

\* the section of a view: its subtotal tiles and its daily rollup
Section(view_name, df, price_per_credit) ==
    [total_credits |-> IF PrimaryColumn(view_name) \in df.columns
                       THEN ColumnSum(df, PrimaryColumn(view_name)) ELSE 0,
     total_cost |-> (IF PrimaryColumn(view_name) \in df.columns
                     THEN ColumnSum(df, PrimaryColumn(view_name)) ELSE 0)
                    * price_per_credit,
     daily |-> DailyRollup(view_name, df)]

\* the section of a view raises KeyError: the table has rows and lacks a
\* column the section reads unguarded
Raises(view_name, df) ==
    df.rows # {} /\ ~(RequiredColumns(view_name) \subseteq df.columns)

\* the positions, in the order of the sections, of those that raise
RaisingAt(frames) ==
    {i \in DOMAIN ViewNames : Raises(ViewNames[i], frames[ViewNames[i]])}

\* the sections rendered: those of non-empty tables, up to the first that raises
Rendered(frames) ==
    {ViewNames[i] : i \in {j \in DOMAIN ViewNames :
                              /\ frames[ViewNames[j]].rows # {}
                              /\ \A x \in RaisingAt(frames) : j < x}}

\* the totals, the sections and the view whose section raised, if any
Summarize(frames, price_per_credit, tie_up) ==
    [total_credits |-> TotalCredits(frames),
     total_cost |-> Round2(TotalCredits(frames) * price_per_credit, tie_up),
     sections |-> [v \in Rendered(frames) |-> Section(v, frames[v], price_per_credit)],
     raised |-> IF RaisingAt(frames) = {} THEN None
                ELSE Some(ViewNames[CHOOSE i \in RaisingAt(frames) :
                                      \A x \in RaisingAt(frames) : i <= x])]

\* the filter of a submitted form, for each sample fill
SummaryDicts ==
    {[warehouses |-> f.warehouses, tags |-> f.tags, pipes |-> f.pipes,
      serverless_tasks |-> f.serverless_tasks, compute_pools |-> f.compute_pools,
      selected_tag |-> None] : f \in FormFills}

\* a column missing from the table of one view, or none; every view has
\* HOUR_START, which the query itself filters on
MissingColumns ==
    {[view_name |-> MV_WAREHOUSE_USAGE, columns |-> {}]}
    \cup UNION {{[view_name |-> v, columns |-> {c}] :
                    c \in ExpectedColumns(v) \ {"hour_start"}} : v \in Views}

SummaryArgs ==
    { [phase |-> "summary_args", filter_dict |-> fd, start_ts |-> tr[1],
       end_ts |-> tr[2], price_per_credit |-> p, missing |-> m, tie_up |-> t] :
        fd \in {None} \cup {Some(d) : d \in SummaryDicts}, tr \in TimeRanges,
        p \in Prices, m \in MissingColumns, t \in BOOLEAN }

\* the five DataFrames of a run of the consumption tab
SummaryFrames(c) ==
    [v \in Views |->
        Frame(fetch_materialized_view_data(Session(DefaultTagged), v, c.filter_dict,
                                           c.start_ts, c.end_ts),
              v, IF c.missing.view_name = v THEN c.missing.columns ELSE {})]

\* the consumption tab renders its totals, tiles and rollups
SummarizeCall ==
    /\ call.phase = "summary_args"
    /\ call' = [phase |-> "summarized", filter_dict |-> call.filter_dict,
                start_ts |-> call.start_ts, end_ts |-> call.end_ts,
                price_per_credit |-> call.price_per_credit,
                missing |-> call.missing, tie_up |-> call.tie_up,
                frames |-> SummaryFrames(call),
                result |-> Summarize(SummaryFrames(call), call.price_per_credit,
                                     call.tie_up)]
    /\ UNCHANGED <<session_state, filter_settings, last, saved, nactions, cache, now, loads>>

InitSummary == call \in SummaryArgs /\ InitSessions /\ cache = EmptyCache(FALSE)
NextSummary == SummarizeCall
SpecSummary == InitSummary /\ [][NextSummary]_vars

---------------------------------------------------------------------------
(* Claims about the aggregates (checked under SpecSummary) *)

Summarized == call.phase = "summarized"

\* the rows that count for the total: those of every table that has its
\* primary credit column, each with its view
CountedRows ==
    UNION {{<<v, r>> : r \in call.frames[v].rows} :
           v \in {x \in Views : PrimaryColumn(x) \in call.frames[x].columns}}

\* C11 as claimed: whichever expected column a non-empty table lacks, the
\* consumption tab renders without raising, and a table that lacks its
\* primary credit column contributes zero to the total.
C11_MissingColumnIsZero ==
    Summarized =>
        /\ call.result.raised = None
        /\ call.result.total_credits =
              SetSum(CountedRows, [x \in CountedRows |-> x[2].credits])

\* C15: total credits is the sum of the primary credit measure over the rows
\* of the five tables, and the displayed total cost is total credits times
\* the price, rounded to two decimals.
C15_TotalsAddUp ==
    Summarized =>
        /\ call.result.total_credits =
              SetSum(CountedRows, [x \in CountedRows |-> x[2].credits])
        /\ call.result.total_cost % 10 = 0
        /\ call.result.total_cost
              - call.result.total_credits * call.price_per_credit \in -5..5

\* several kinds contribute, one of them the analytics functions, one table
\* is empty, and the product has a third decimal that rounds up
C15_Witness ==
    /\ Summarized
    /\ call.missing.columns = {}
    /\ call.frames[MV_WAREHOUSE_USAGE].rows # {}
    /\ call.frames[MV_CORTEX_FUNCTION_CREDIT_USAGE].rows # {}
    /\ \E v \in Views : call.frames[v].rows = {}
    /\ (call.result.total_credits * call.price_per_credit) % 10 > 5

\* C16: for every rendered section and every measure its daily rollup sums,
\* the sum of the measure over the rollup rows equals its sum over the rows
\* of the table.
C16_RollupKeepsSums ==
    Summarized =>
        \A v \in DOMAIN call.result.sections :
            \A c \in SummedColumns(v) :
                SetSum(call.result.sections[v].daily,
                       [g \in call.result.sections[v].daily |-> g.sums[c]])
                  = ColumnSum(call.frames[v], c)

\* a warehouse table in which the tag join repeated a row, next to a pipe
\* rollup of two measures and a rollup of more than one row
C16_Witness ==
    /\ Summarized
    /\ MV_WAREHOUSE_USAGE \in DOMAIN call.result.sections
    /\ \E r \in call.frames[MV_WAREHOUSE_USAGE].rows : r.k > 1
    /\ MV_PIPE_USAGE \in DOMAIN call.result.sections
    /\ \E v \in DOMAIN call.result.sections :
          Cardinality(call.result.sections[v].daily) > 1

---------------------------------------------------------------------------
(* The projection of render_predictions_tab.  A growth rate is counted in    *)
(* tenths of a percent, so 1 + growth_rate / 100 is (1000 + growth) / 1000.  *)
(* A projected cost is kept exact, as a natural number of 10^-12 thousandths *)
(* of a dollar: a little-endian sequence of digits in base 10^4.             *)

Limb == 10 ^ 4

\* the digits of a natural number
RECURSIVE Big(_)
Big(n) == IF n = 0 THEN << >> ELSE <<n % Limb>> \o Big(n \div Limb)

\* x * m + carry, for 0 < m < Limb
RECURSIVE BigTimes(_, _, _)
BigTimes(x, m, carry) ==
    IF x = << >> THEN Big(carry)
    ELSE <<(Head(x) * m + carry) % Limb>>
         \o BigTimes(Tail(x), m, (Head(x) * m + carry) \div Limb)

\* the digit of x at position 1, 0 beyond its length
Low(x) == IF x = << >> THEN 0 ELSE Head(x)
Rest(x) == IF x = << >> THEN << >> ELSE Tail(x)

\* x + y + carry
RECURSIVE BigPlus(_, _, _)
BigPlus(x, y, carry) ==
    IF x = << >> /\ y = << >> THEN Big(carry)
    ELSE <<(Low(x) + Low(y) + carry) % Limb>>
         \o BigPlus(Rest(x), Rest(y), (Low(x) + Low(y) + carry) \div Limb)

\* x without leading zero digits
RECURSIVE BigTrim(_)
BigTrim(x) ==
    IF x # << >> /\ x[Len(x)] = 0 THEN BigTrim(SubSeq(x, 1, Len(x) - 1)) ELSE x

\* quotient (untrimmed) and remainder of x by d, for 0 < d < Limb
RECURSIVE BigDiv(_, _)
BigDiv(x, d) ==
    IF x = << >> THEN [q |-> << >>, r |-> 0]
    ELSE [q |-> <<(BigDiv(Tail(x), d).r * Limb + Head(x)) \div d>>
                \o BigDiv(Tail(x), d).q,
          r |-> (BigDiv(Tail(x), d).r * Limb + Head(x)) % d]

\* x <= y
RECURSIVE BigLeq(_, _)
BigLeq(x, y) ==
    IF Len(x) # Len(y) THEN Len(x) < Len(y)
    ELSE IF x = << >> THEN TRUE
    ELSE IF x[Len(x)] # y[Len(y)] THEN x[Len(x)] < y[Len(y)]
    ELSE BigLeq(SubSeq(x, 1, Len(x) - 1), SubSeq(y, 1, Len(y) - 1))

\* the value of a small x
RECURSIVE BigToInt(_)
BigToInt(x) == IF x = << >> THEN 0 ELSE Head(x) + Limb * BigToInt(Tail(x))

\* x * m^n
RECURSIVE BigTimesPower(_, _, _)
BigTimesPower(x, m, n) ==
    IF n = 0 THEN x ELSE BigTimesPower(BigTimes(x, m, 0), m, n - 1)

\* timeframes = [30, 60, 90, 120]
timeframes == <<30, 60, 90, 120>>

\* an amount of thousandths of a dollar as an exact projected cost
Exact(cost) == BigTimesPower(Big(cost), 1000, 4)

\* a projection with simple interest: current_cost * (1 + growth_rate * days / 30)
ProjectedSimple(current_cost, growth, days) ==
    BigTimesPower(BigTimes(Big(current_cost), 1000 + growth * (days \div 30), 0), 1000, 3)

\* a projection that shrinks: current_cost * (1 - growth_rate) ** (days / 30)
ProjectedShrinking(current_cost, growth, days) ==
    BigTimesPower(BigTimesPower(Big(current_cost), 1000 - growth, days \div 30),
                  1000, 4 - days \div 30)

\* projected_cost = current_cost * (1 + growth_rate) ** (days / 30)
Projected(current_cost, growth, days) ==
    BigTimesPower(BigTimesPower(Big(current_cost), 1000 + growth, days \div 30),
                  1000, 4 - days \div 30)

\* one step of dropping three decimals, remembering whether any was not 0
DropThree(v) ==
    [q |-> BigTrim(BigDiv(v.q, 1000).q), rest |-> v.rest \/ BigDiv(v.q, 1000).r # 0]

\* f"{x:,.2f}" of an exact cost: its cents.  A value exactly half way is
\* rounded by its binary representation, down or up: tie_up tells which.
Cents(x, tie_up) ==
    LET v == DropThree(DropThree(DropThree(DropThree([q |-> x, rest |-> FALSE]))))
        d == BigDiv(v.q, 10)
    IN  BigToInt(BigTrim(d.q))
        + (IF d.r > 5 \/ (d.r = 5 /\ (v.rest \/ tie_up)) THEN 1 ELSE 0)

\* the kinds of prediction_data, in the order of its items
KindOrder == <<"warehouse", "compute_pool", "pipe", "serverless_task", "cortex_function">>

\* the kinds that get a row: if current_cost > 0
Included(prediction_data) == {kind \in Kinds : prediction_data[kind] > 0}

\* the row of a kind
ReceiptRow(current_cost, growth) ==
    [current |-> current_cost,
     projected |-> [i \in DOMAIN timeframes |-> Projected(current_cost, growth, timeframes[i])]]

\* a total_current that adds the cost of every kind
TotalCurrentAllKinds(kinds, prediction_data) ==
    SetSum(SeqToSet(kinds), [kind \in SeqToSet(kinds) |-> prediction_data[kind]])

\* total_current += current_cost, inside "if current_cost > 0"
RECURSIVE TotalCurrent(_, _)
TotalCurrent(kinds, prediction_data) ==
    IF kinds = << >> THEN 0
    ELSE (IF prediction_data[Head(kinds)] > 0 THEN prediction_data[Head(kinds)] ELSE 0)
         + TotalCurrent(Tail(kinds), prediction_data)

\* total_projected[days] += projected_cost, inside "if current_cost > 0"
RECURSIVE TotalProjected(_, _, _, _)
TotalProjected(kinds, prediction_data, growth_rates, days) ==
    IF kinds = << >> THEN << >>
    ELSE BigPlus(IF prediction_data[Head(kinds)] > 0
                 THEN Projected(prediction_data[Head(kinds)],
                                Get(growth_rates, Head(kinds), DefaultGrowth), days)
                 ELSE << >>,
                 TotalProjected(Tail(kinds), prediction_data, growth_rates, days), 0)

\* receipt_data: the rows of the included kinds and the totals row
Receipt(prediction_data, growth_rates) ==
    [rows |-> [kind \in Included(prediction_data) |->
                 ReceiptRow(prediction_data[kind],
                            Get(growth_rates, kind, DefaultGrowth))],
     total |-> [current |-> TotalCurrent(KindOrder, prediction_data),
                projected |-> [i \in DOMAIN timeframes |->
                                 TotalProjected(KindOrder, prediction_data,
                                                growth_rates, timeframes[i])]]]

\* the kinds that are given a growth-rate input
GrowthControls(prediction_data) == {kind \in Kinds : prediction_data[kind] > 0}

\* the captured costs of the sample sessions, in thousandths of a dollar:
\* $100 or nothing for each kind, and one kind with a negative cost
SampleCost == 100 * 1000
SampleCosts ==
    [Kinds -> {0, SampleCost}]
    \cup {[kind \in Kinds |-> IF kind = x THEN 0 - 3 ELSE 17] : x \in Kinds}

\* the growth rates of the sample sessions: the defaults, 10 % for all, and
\* 10 %, 0 %, 100 %, 0.5 % and 0.1 %
SampleRates ==
    { [kind \in Kinds |-> DefaultGrowth], [kind \in Kinds |-> 100],
      [warehouse |-> 100, compute_pool |-> 0, pipe |-> 1000,
       serverless_task |-> DefaultGrowth, cortex_function |-> 1] }

\* what the growth-rate widgets hold: nothing new, or a value for one kind
GrowthEvents ==
    {[type |-> "none"]}
    \cup {[type |-> "growth", kind |-> kind, value |-> value] :
            kind \in Kinds, value \in GrowthRates \ {DefaultGrowth}}

PredictArgs ==
    { [phase |-> "predict_args",
       ss |-> [initialize_session_state EXCEPT
                 !.filter_submitted = TRUE, !.prediction_data = Some(pd),
                 !.growth_rates = gr],
       event |-> e, tie_up |-> t] :
        pd \in SampleCosts, gr \in SampleRates, e \in GrowthEvents, t \in BOOLEAN }

\* the predictions tab renders its growth inputs and its receipt
PredictCall ==
    /\ call.phase = "predict_args"
    /\ call' = [phase |-> "predicted", ss |-> call.ss, event |-> call.event,
                tie_up |-> call.tie_up,
                after |-> render_predictions_tab(call.ss, call.event),
                controls |-> GrowthControls(Val(call.ss.prediction_data)),
                receipt |-> Receipt(Val(call.ss.prediction_data),
                                    render_predictions_tab(call.ss, call.event).growth_rates)]
    /\ UNCHANGED <<session_state, filter_settings, last, saved, nactions, cache, now, loads>>

InitPredict == call \in PredictArgs /\ InitSessions /\ cache = EmptyCache(FALSE)
NextPredict == PredictCall
SpecPredict == InitPredict /\ [][NextPredict]_vars

---------------------------------------------------------------------------
(* Claims about the projection (checked under SpecPredict and Spec) *)

Predicted == call.phase = "predicted"

\* the captured costs and the growth rates the receipt was made of
Snapshot == Val(call.ss.prediction_data)
RatesUsed == call.after.growth_rates

\* sum of the exact amounts F[x] over a finite set S
RECURSIVE BigSetSum(_, _)
BigSetSum(S, F) ==
    IF S = {} THEN << >>
    ELSE LET x == CHOOSE y \in S : TRUE IN BigPlus(F[x], BigSetSum(S \ {x}, F), 0)

\* C17: for each kind with a positive captured cost, the projected cost at
\* 30 days is the cost times (1 + rate), and at each later horizon the
\* projected cost of the horizon before times (1 + rate): the cost times
\* (1 + rate)^(days/30).  A cost of $100 at 10 % shows 110.00, 121.00, 133.10
\* and 146.41.
C17_Compounding ==
    Predicted =>
        \A kind \in DOMAIN call.receipt.rows :
            /\ call.receipt.rows[kind].current = Snapshot[kind]
            /\ BigTimes(call.receipt.rows[kind].projected[1], 1000, 0)
                  = BigTimes(Exact(Snapshot[kind]), 1000 + RatesUsed[kind], 0)
            /\ \A i \in 2..Len(timeframes) :
                  BigTimes(call.receipt.rows[kind].projected[i], 1000, 0)
                    = BigTimes(call.receipt.rows[kind].projected[i - 1],
                               1000 + RatesUsed[kind], 0)
            /\ (Snapshot[kind] = SampleCost /\ RatesUsed[kind] = 100) =>
                  [i \in DOMAIN timeframes |->
                      Cents(call.receipt.rows[kind].projected[i], call.tie_up)]
                    = <<11000, 12100, 13310, 14641>>

\* a receipt with a row of $100 at 10 % that the user just entered and a row
\* at the default rate
C17_Witness ==
    /\ Predicted
    /\ call.event.type = "growth"
    /\ call.ss.growth_rates[call.event.kind] # 100
    /\ call.event.kind \in DOMAIN call.receipt.rows
    /\ Snapshot[call.event.kind] = SampleCost
    /\ RatesUsed[call.event.kind] = 100
    /\ \E kind \in DOMAIN call.receipt.rows : RatesUsed[kind] = DefaultGrowth

\* C18: the totals row holds the sum of the current costs and, for each
\* horizon, the sum of the projected costs of exactly the kinds that have a
\* row; without any row every total is 0.
C18_TotalsRow ==
    Predicted =>
        /\ call.receipt.total.current
              = SetSum(DOMAIN call.receipt.rows,
                       [kind \in DOMAIN call.receipt.rows |->
                           call.receipt.rows[kind].current])
        /\ \A i \in DOMAIN timeframes :
              call.receipt.total.projected[i]
                = BigSetSum(DOMAIN call.receipt.rows,
                            [kind \in DOMAIN call.receipt.rows |->
                                call.receipt.rows[kind].projected[i]])
        /\ DOMAIN call.receipt.rows = {} =>
              /\ call.receipt.total.current = 0
              /\ \A i \in DOMAIN timeframes : call.receipt.total.projected[i] = << >>

\* a receipt of several rows at different rates next to a kind left out for
\* its negative cost
C18_Witness ==
    /\ Predicted
    /\ \E k1 \in DOMAIN call.receipt.rows, k2 \in DOMAIN call.receipt.rows :
          RatesUsed[k1] # RatesUsed[k2]
    /\ \E kind \in Kinds : Snapshot[kind] < 0
    /\ call.receipt.total.current > 0

\* the snapshot with the costs of the kinds that have none set to 0
PositiveCosts == [kind \in Kinds |-> IF Snapshot[kind] > 0 THEN Snapshot[kind] ELSE 0]

\* C19: a kind whose captured cost is 0 or negative has no row, adds nothing
\* to the totals row, has no growth-rate input, and keeps its stored rate.
C19_ZeroCostExcluded ==
    Predicted =>
        \A kind \in {x \in Kinds : Snapshot[x] <= 0} :
            /\ kind \notin DOMAIN call.receipt.rows
            /\ kind \notin call.controls
            /\ call.after.growth_rates[kind] = call.ss.growth_rates[kind]
            /\ call.receipt.total = Receipt(PositiveCosts, RatesUsed).total

\* the widget state holds a new rate for a kind without a positive cost,
\* next to kinds that have rows
C19_Witness ==
    /\ Predicted
    /\ call.event.type = "growth"
    /\ Snapshot[call.event.kind] <= 0
    /\ call.event.value # call.ss.growth_rates[call.event.kind]
    /\ DOMAIN call.receipt.rows # {}
    /\ \E kind \in Kinds : Snapshot[kind] < 0

\* C20: in every session each growth rate is at least 0, and each projected
\* cost of a captured prediction is at least the current cost of its kind.
C20_NeverBelowCurrent ==
    \A s \in Sessions :
        /\ \A kind \in Kinds : session_state[s].growth_rates[kind] >= 0
        /\ session_state[s].prediction_data # None =>
              \A kind \in Included(Val(session_state[s].prediction_data)) :
                  \A i \in DOMAIN timeframes :
                      BigLeq(Exact(Val(session_state[s].prediction_data)[kind]),
                             Projected(Val(session_state[s].prediction_data)[kind],
                                       session_state[s].growth_rates[kind],
                                       timeframes[i]))

\* a session whose user set one rate to 0 and whose other rates are the
\* default, with a positive captured cost for each
C20_Witness ==
    /\ Completed("growth")
    /\ last.event.value = 0
    /\ LastState.growth_rates[last.event.kind] = 0
    /\ \E kind \in Included(Val(LastState.prediction_data)) :
          LastState.growth_rates[kind] = DefaultGrowth

---------------------------------------------------------------------------
(* st.cache_data(ttl=CACHE_TTL) around fetch_materialized_view_data: sessions *)
(* running the script while time passes and the warehouse loads new usage.    *)
(* A run is instantaneous.  The runs of this part have no failing query.      *)

CACHE_TTL == 600

MaxPeriods == 1
MaxLoads == 1

\* the instants the clock is read at: a second before the end of each TTL
\* period, and a second after it
Instants == {k * CACHE_TTL + d : k \in 1..MaxPeriods, d \in {-1, 1}}

\* what st.cache_data hashes into the key: every argument but _session
CacheKey(view_name, filter_dict, start_ts, end_ts) ==
    <<view_name, filter_dict, start_ts, end_ts>>

\* the key of the fetch of a view by render_consumption_tab
KeyOf(ss, view_name) ==
    CacheKey(view_name, ss.filter_data, Some(DayStart(ss.start_date)),
             Some(DayEnd(ss.end_date)))

\* the cache a session reads and writes: the one of all sessions (0), or its own
CacheOf(c, s) == IF c.shared THEN 0 ELSE s

\* a cache whose entries never expire
LiveForever(entries, at) == entries

\* the entries that have not expired: an entry lives less than the TTL
Live(entries, at) == {en \in entries : at - en.stored_at < CACHE_TTL}

\* the entry that serves a call of the cached function, if there is one
Hit(c, owner, key, at) ==
    {en \in Live(c.entries, at) : en.owner = owner /\ en.key = key}

\* the entry a call that misses stores: the DataFrame the function returns,
\* with the session that ran it and the loads the warehouse had had
NewEntry(owner, s, at, loaded, ss, view_name) ==
    [owner |-> owner, key |-> KeyOf(ss, view_name),
     df |-> fetch_materialized_view_data(
                SessionAt(DefaultTagged, loaded), view_name, ss.filter_data,
                Some(DayStart(ss.start_date)), Some(DayEnd(ss.end_date))).df,
     stored_at |-> at, by |-> s, loaded |-> loaded]

\* the DataFrame a call of the cached function returns
CachedFetch(c, owner, s, at, loaded, ss, view_name) ==
    IF Hit(c, owner, KeyOf(ss, view_name), at) # {}
    THEN (CHOOSE en \in Hit(c, owner, KeyOf(ss, view_name), at) : TRUE).df
    ELSE NewEntry(owner, s, at, loaded, ss, view_name).df

\* the five fetches of render_consumption_tab, served through the cache
CachedFetchAll(c, owner, s, at, loaded, ss) ==
    [v \in Views |-> CachedFetch(c, owner, s, at, loaded, ss, v)]

\* the views whose fetch misses
Missed(c, owner, at, ss) ==
    {v \in Views : Hit(c, owner, KeyOf(ss, v), at) = {}}

\* the cache after the five fetches: a store drops the expired entries of
\* its cache and adds the new one
Stored(c, owner, s, at, loaded, ss) ==
    IF Missed(c, owner, at, ss) = {} THEN c
    ELSE [c EXCEPT !.entries =
            {en \in @ : en.owner # owner \/ en \in Live(@, at)}
            \cup {NewEntry(owner, s, at, loaded, ss, v) : v \in Missed(c, owner, at, ss)}]

\* the tabs after the resource submission tab, the fetches served through
\* the cache
CachedTabs(tab1, e, c, owner, s, at, loaded) ==
    AfterConsumption(
        tab1,
        ConsumptionViewGiven(
            DateAndPrice(tab1.ss, e), e, "none",
            CachedFetchAll(c, owner, s, at, loaded, DateAndPrice(tab1.ss, e))),
        e)

\* one run of the script, the fetches served through the cache
MainCached(ss, rows, e, c, owner, s, at, loaded) ==
    CachedTabs(render_resource_submission_tab(CommitWidgets(ss, e), rows, e, "none"),
               e, c, owner, s, at, loaded)

\* the state after session s ran the script with result r: the dates and
\* the filter of r.ss are those the fetches were made with
RanCached(s, e, r) ==
    /\ Recorded(s, e, "none", r)
    /\ cache' = IF r.fetched
                THEN Stored(cache, CacheOf(cache, s), s, now, Len(loads), r.ss)
                ELSE cache
    /\ UNCHANGED <<call, now, loads>>

\* session s runs the script for the event e
Visit(s, e) ==
    /\ nactions < MaxActions
    /\ RanCached(s, e, MainCached(session_state[s], filter_settings, e, cache,
                                  CacheOf(cache, s), s, now, Len(loads)))

\* The users of this part choose the tag env and the preset name P1.

VisitQueryAll(s) ==
    /\ s \in Sessions
    /\ Visit(s, [type |-> "query_all"])

VisitSavedFilter(s) ==
    /\ s \in Sessions
    /\ \E value \in ({<< >>} \cup FilterIds(filter_settings))
                    \ {FilterSelectValue(session_state[s], filter_settings,
                                          [type |-> "none"])} :
        Visit(s, [type |-> "select_filter", value |-> value])

VisitSubmitTag(s) ==
    /\ s \in Sessions
    /\ \E value \in {<<"env">>} : Visit(s, [type |-> "submit_tag", value |-> value])

VisitFormSubmit(s) ==
    /\ s \in Sessions
    /\ \E filter_id \in {<<"P1">>}, f \in FormFills :
         Visit(s, [type |-> "submit_form", filter_id |-> filter_id,
                   warehouses |-> f.warehouses, tags |-> f.tags, pipes |-> f.pipes,
                   serverless_tasks |-> f.serverless_tasks,
                   compute_pools |-> f.compute_pools])

VisitDateRange(s) ==
    /\ s \in Sessions
    /\ \E sd \in Days, ed \in Days :
        /\ sd <= ed
        /\ <<sd, ed>> # <<session_state[s].start_date, session_state[s].end_date>>
        /\ Visit(s, [type |-> "date_range", start_date |-> sd, end_date |-> ed])

VisitPrice(s) ==
    /\ s \in Sessions
    /\ \E value \in Prices \ {session_state[s].price_per_credit} :
        Visit(s, [type |-> "price", value |-> value])

VisitGeneratePrediction(s) ==
    /\ session_state[s].filter_submitted
    /\ Visit(s, [type |-> "generate_prediction"])

VisitGrowthRate(s) ==
    /\ session_state[s].filter_submitted
    /\ session_state[s].prediction_data # None
    /\ \E kind \in Kinds, value \in GrowthRates :
         /\ Val(session_state[s].prediction_data)[kind] > 0
         /\ value # session_state[s].growth_rates[kind]
         /\ Visit(s, [type |-> "growth", kind |-> kind, value |-> value])

\* time passes
Tick ==
    /\ \E t \in Instants : t > now /\ now' = t
    /\ UNCHANGED <<session_state, filter_settings, last, saved, nactions, call, cache,
                   loads>>

\* the warehouse loads new usage; no entry of the cache is touched
Load ==
    /\ Len(loads) < MaxLoads
    /\ loads' = Append(loads, now)
    /\ UNCHANGED <<session_state, filter_settings, last, saved, nactions, call, cache,
                   now>>

InitCache ==
    /\ InitSessions
    /\ call = IdleCall
    /\ cache \in {EmptyCache(shared) : shared \in BOOLEAN}

NextCache ==
    \/ \E s \in Sessions :
        \/ VisitQueryAll(s)
        \/ VisitSavedFilter(s)
        \/ VisitSubmitTag(s)
        \/ VisitFormSubmit(s)
        \/ VisitDateRange(s)
        \/ VisitPrice(s)
        \/ VisitGeneratePrediction(s)
        \/ VisitGrowthRate(s)
    \/ Tick
    \/ Load

SpecCache == InitCache /\ [][NextCache]_vars

---------------------------------------------------------------------------
(* Claims about the sessions and the cache (checked under SpecCache) *)

\* the table a query of the view returns for the session's filter and dates
\* once the warehouse has had this many loads
FreshTable(ss, view_name, loaded) ==
    fetch_materialized_view_data(SessionAt(DefaultTagged, loaded), view_name,
                                 ss.filter_data, Some(DayStart(ss.start_date)),
                                 Some(DayEnd(ss.end_date))).df

\* the step is a run of the script
IsRun == nactions' # nactions

\* no run changes the state of a session other than the one that ran it
OthersUntouched ==
    \A t \in Sessions \ {last'.session} : session_state'[t] = session_state[t]

\* the entries that can have served the table shown for a view in the run
\* of this step
Served(view_name) ==
    {en \in cache.entries :
        /\ en.key = KeyOf(session_state'[last'.session], view_name)
        /\ en.df = Val(last'.shown)[view_name]
        /\ now - en.stored_at < CACHE_TTL}

\* C21 as claimed: no run of one session changes the state of another
\* session (its filter, its inputs, its selected tag, its prediction snapshot,
\* its growth rates), and a session sees nothing of another session but the
\* presets: every table a run shows is the table a query returns at that
\* moment, or a table the same session fetched before.
C21_OnlyPresetsShared ==
    [][IsRun =>
         /\ OthersUntouched
         /\ last'.shown # None =>
               \A v \in Views :
                   \/ Val(last'.shown)[v] = FreshTable(session_state'[last'.session], v,
                                                       Len(loads))
                   \/ \E en \in Served(v) : en.by = last'.session]_vars

\* C21 amended: no run of one session changes the state of another session,
\* and a session sees nothing of another session but the presets and the
\* entries of the function cache: every table a run shows is the table a
\* query returns at that moment, or a table fetched with the same arguments
\* less than the TTL before, by the same session or, where the platform keeps
\* one cache for all sessions, by any session.
C21_PresetsAndCacheShared ==
    [][IsRun =>
         /\ OthersUntouched
         /\ last'.shown # None =>
               \A v \in Views :
                   \/ Val(last'.shown)[v] = FreshTable(session_state'[last'.session], v,
                                                       Len(loads))
                   \/ \E en \in Served(v) :
                         /\ en.owner = CacheOf(cache, last'.session)
                         /\ (en.by = last'.session \/ cache.shared)]_vars

\* a session is shown a warehouse table that another session fetched before
\* the warehouse loaded new usage, while its own filter stays its own
C21_Witness ==
    /\ last.session \in Sessions
    /\ last.shown # None
    /\ loads # << >>
    /\ loads[1] < last.at
    /\ Val(last.shown)[MV_WAREHOUSE_USAGE]
          # FreshTable(LastState, MV_WAREHOUSE_USAGE, Len(loads))
    /\ \E en \in cache.entries :
          /\ en.by # last.session
          /\ en.key = KeyOf(LastState, MV_WAREHOUSE_USAGE)
          /\ en.df = Val(last.shown)[MV_WAREHOUSE_USAGE]
          /\ en.loaded < Len(loads)
    /\ \A en \in cache.entries : en.by # last.session
    /\ \E t \in Sessions \ {last.session} :
          session_state[t].filter_data # LastState.filter_data

\* the live entries of the running session's cache under the key of a view,
\* before the run of this step
LiveBefore(view_name) ==
    {en \in cache.entries :
        /\ en.owner = CacheOf(cache, last'.session)
        /\ en.key = KeyOf(session_state'[last'.session], view_name)
        /\ now - en.stored_at < CACHE_TTL}

\* the numbers of loads the warehouse had had at some instant of the last
\* TTL period
RecentLoads ==
    {n \in 0..Len(loads) : n = Len(loads) \/ now - loads[n + 1] <= CACHE_TTL}

\* C22: a fetch with the arguments of an entry stored less than the TTL
\* before returns the table of the entry, whatever the warehouse has loaded
\* since, and every table a run shows is the table a query returned at some
\* instant of the last TTL period.
C22_StaleWithinTTL ==
    [][(IsRun /\ last'.shown # None) =>
         \A v \in Views :
             /\ \A en \in LiveBefore(v) : Val(last'.shown)[v] = en.df
             /\ \E n \in RecentLoads :
                   Val(last'.shown)[v] = FreshTable(session_state'[last'.session], v, n)]_vars

\* a second before the TTL ends a session is shown again the warehouse table
\* it fetched at the start, although the warehouse has loaded new usage since
C22_Witness ==
    /\ last.session \in Sessions
    /\ last.shown # None
    /\ last.at = CACHE_TTL - 1
    /\ loads # << >>
    /\ loads[1] < last.at
    /\ Val(last.shown)[MV_WAREHOUSE_USAGE]
          # FreshTable(LastState, MV_WAREHOUSE_USAGE, Len(loads))
    /\ \E en \in cache.entries :
          /\ en.by = last.session
          /\ en.stored_at = 0
          /\ en.key = KeyOf(LastState, MV_WAREHOUSE_USAGE)
          /\ en.df = Val(last.shown)[MV_WAREHOUSE_USAGE]

====
